---- MODULE Spec2Model ----
(***************************************************************************)
(* A model of weather_cli.py: the credential resolver (get_api_key), the   *)
(* location resolver (get_coordinates), the weather fetcher                *)
(* (get_weather_data under log_execution_time), the report renderer        *)
(* (display_weather_data) and the orchestrator (main).                     *)
(*                                                                         *)
(* Python values are records tagged by type; text is a sequence of string  *)
(* tokens (a user-supplied string is a sequence of one-character tokens, a *)
(* literal of the source is one token); an exception is its class and its  *)
(* message.                                                                *)
(***************************************************************************)
EXTENDS Integers, Sequences, FiniteSets, TLC

VARIABLES
  args,         \* the parsed command line: city, state, country, apikey
  environ,      \* os.environ.get("OPENWEATHERMAP_API_KEY")
  pc,           \* main's position
  api_key,      \* main's local api_key
  coords,       \* main's locals lat, lon (a pair once bound)
  weather_data, \* main's local weather_data (a singleton once bound)
  response,     \* the HTTP outcome seen by the get_* call in progress or just ended
  result,       \* what that call returned or raised
  calls,        \* the components main has invoked, in order
  returned,     \* for each finished component, whether it returned ("ok") or raised
  requests,     \* every requests.get made so far: url and params
  inflight,     \* requests sent and not yet completed
  stdout,       \* every line printed so far, with the function that printed it
  escaped       \* whether an exception left main

vars == <<args, environ, pc, api_key, coords, weather_data, response, result,
          calls, returned, requests, inflight, stdout, escaped>>

---------------------------------------------------------------------------
(* Bounds *)

\* Longest geocoding result array the service may answer with.
MaxResults == 2
\* Most places at which a weather payload departs from the documented schema.
MaxDefects == 2

---------------------------------------------------------------------------
(* Python / JSON values *)

JNull == [t |-> "null"]
JNum(n) == [t |-> "num", n |-> n]
JStr(s) == [t |-> "str", s |-> s]
JList(items) == [t |-> "list", items |-> items]
JObj(fields) == [t |-> "obj", fields |-> fields]

\* bool(v): None, 0, "", [] and {} are falsy.
Truthy(v) ==
  CASE v.t = "null" -> FALSE
    [] v.t = "num"  -> v.n # 0
    [] v.t = "str"  -> v.s # <<>>
    [] v.t = "list" -> v.items # <<>>
    [] v.t = "obj"  -> DOMAIN v.fields # {}

\* The decimal digits of a number, one token.
NumText(n) == <<ToString(n)>>

\* format(v, ""): how an f-string renders a value.
Format(v) ==
  CASE v.t = "null" -> <<"None">>
    [] v.t = "num"  -> NumText(v.n)
    [] v.t = "str"  -> v.s
    [] v.t = "list" -> <<"[...]">>
    [] v.t = "obj"  -> <<"{...}">>

---------------------------------------------------------------------------
(* Exceptions and call outcomes *)

NoExc == [cls |-> "none", msg |-> <<>>]
Exc(cls, msg) == [cls |-> cls, msg |-> msg]

Return(v) == [ok |-> TRUE, val |-> v, exc |-> NoExc]
Raise(cls, msg) == [ok |-> FALSE, val |-> <<>>, exc |-> Exc(cls, msg)]
NoResult == [ok |-> FALSE, val |-> <<>>, exc |-> NoExc]

\* The classes an exception class is an instance of (its method resolution order).
Ancestors(cls) ==
  CASE cls = "HTTPError" ->
         {"HTTPError", "RequestException", "OSError", "Exception"}
    [] cls \in {"requests.ConnectionError", "Timeout", "SSLError"} ->
         {cls, "RequestException", "OSError", "Exception"}
    [] cls = "JSONDecodeError" ->
         {"JSONDecodeError", "RequestException", "OSError", "ValueError", "Exception"}
    [] cls = "ConnectionError" -> {"ConnectionError", "OSError", "Exception"}
    [] cls \in {"KeyError", "IndexError"} -> {cls, "LookupError", "Exception"}
    [] OTHER -> {cls, "Exception"}

\* try/except: the first clause, in source order, naming a class of the exception;
\* 0 when no clause matches and the exception propagates.
Handler(clauses, cls) ==
  LET hits == {i \in 1..Len(clauses) : clauses[i] \cap Ancestors(cls) # {}}
  IN  IF hits = {} THEN 0 ELSE CHOOSE i \in hits : \A j \in hits : i <= j

\* v[key] for a string key.
GetKey(v, key) ==
  CASE v.t = "obj" ->
         IF key \in DOMAIN v.fields THEN Return(v.fields[key])
         ELSE Raise("KeyError", <<"'", key, "'">>)
    [] v.t \in {"list", "str"} ->
         Raise("TypeError", <<"indices must be integers">>)
    [] OTHER -> Raise("TypeError", <<"object is not subscriptable">>)

\* v[0].
GetFirst(v) ==
  CASE v.t = "list" ->
         IF v.items # <<>> THEN Return(v.items[1])
         ELSE Raise("IndexError", <<"list index out of range">>)
    [] v.t = "str" ->
         IF v.s # <<>> THEN Return(JStr(<<v.s[1]>>))
         ELSE Raise("IndexError", <<"string index out of range">>)
    [] v.t = "obj" -> Raise("KeyError", <<"0">>)
    [] OTHER -> Raise("TypeError", <<"object is not subscriptable">>)

---------------------------------------------------------------------------
(* Credential resolver *)

\* The message of get_api_key's ValueError, cut at the two sources it names.
missing_key_message ==
  <<"API key must be provided either via ", "--apikey", " argument or ",
    "OPENWEATHERMAP_API_KEY", " environment variable">>

\* get_api_key reading the environment variable before the argument.
get_api_key_env_first(a, env) ==
  IF Truthy(env) THEN Return(env)
  ELSE IF ~Truthy(a.apikey) THEN Raise("ValueError", missing_key_message)
       ELSE Return(a.apikey)

\* get_api_key testing the environment value against None only.
get_api_key_none_only(a, env) ==
  IF Truthy(a.apikey) THEN Return(a.apikey)
  ELSE IF env.t = "null"
       THEN Raise("ValueError",
                  missing_key_message)
       ELSE Return(env)

\* get_api_key: the --apikey argument when truthy, else the environment
\* variable when truthy, else ValueError.
get_api_key(a, env) ==
  IF Truthy(a.apikey) THEN Return(a.apikey)
  ELSE IF ~Truthy(env)
       THEN Raise("ValueError",
                  missing_key_message)
       ELSE Return(env)

---------------------------------------------------------------------------
(* HTTP *)

NoResponse == [kind |-> "none"]

\* requests.get raised: no response was obtained.
Failure(cls, cause) == [kind |-> "failure", cls |-> cls, cause |-> cause]

\* requests.get returned a Response: status_code, text, and what json() gives.
Response(status, text, json_ok, json) ==
  [kind |-> "response", status |-> status, text |-> text,
   json_ok |-> json_ok, json |-> json]

\* Response.raise_for_status: HTTPError for 4xx and 5xx, nothing otherwise.
raise_for_status(r) ==
  IF 400 <= r.status /\ r.status < 500
  THEN Raise("HTTPError", NumText(r.status) \o <<" Client Error">>)
  ELSE IF 500 <= r.status /\ r.status < 600
  THEN Raise("HTTPError", NumText(r.status) \o <<" Server Error">>)
  ELSE Return(<<>>)

\* Response.json: the decoded body, or JSONDecodeError.
json(r) ==
  IF r.json_ok THEN Return(r.json)
  ELSE Raise("JSONDecodeError", <<"Expecting value">>)

---------------------------------------------------------------------------
(* Location resolver *)

geo_url == <<"http://api.openweathermap.org/geo/1.0/direct">>

\* The query joined the way main joins its progress line, with ", ".
location_query_spaced(city, state_code, country_code) ==
  city \o <<", ">> \o state_code \o <<", ">> \o country_code

\* f"{city},{state_code},{country_code}"
location_query(city, state_code, country_code) ==
  city \o <<",">> \o state_code \o <<",">> \o country_code

geo_params(city, state_code, country_code, key) ==
  [q |-> location_query(city, state_code, country_code), limit |-> 1, appid |-> key]

\* v[-1].
GetLast(v) ==
  CASE v.t = "list" ->
         IF v.items # <<>> THEN Return(v.items[Len(v.items)])
         ELSE Raise("IndexError", <<"list index out of range">>)
    [] v.t = "str" ->
         IF v.s # <<>> THEN Return(JStr(<<v.s[Len(v.s)]>>))
         ELSE Raise("IndexError", <<"string index out of range">>)
    [] v.t = "obj" -> Raise("KeyError", <<"-1">>)
    [] OTHER -> Raise("TypeError", <<"object is not subscriptable">>)

\* The try block reading the last match, data[-1], in place of the first.
geo_try_last(city, state_code, country_code, r) ==
  IF r.kind = "failure" THEN Raise(r.cls, r.cause)
  ELSE IF r.status = 401 THEN Raise("ValueError", <<"Invalid API key provided.">>)
  ELSE IF ~raise_for_status(r).ok THEN raise_for_status(r)
  ELSE IF ~json(r).ok THEN json(r)
  ELSE LET data == json(r).val IN
    IF ~Truthy(data)
    THEN Raise("ValueError",
               <<"Location '">> \o location_query(city, state_code, country_code)
                 \o <<"' not found.">>)
    ELSE LET last == GetLast(data) IN
      IF ~last.ok THEN last
      ELSE LET lat == GetKey(last.val, "lat") IN
        IF ~lat.ok THEN lat
        ELSE LET lon == GetKey(last.val, "lon") IN
          IF ~lon.ok THEN lon
          ELSE Return(<<lat.val, lon.val>>)

\* The body of get_coordinates' try block, given the outcome r of requests.get.
geo_try(city, state_code, country_code, r) ==
  IF r.kind = "failure" THEN Raise(r.cls, r.cause)
  ELSE IF r.status = 401 THEN Raise("ValueError", <<"Invalid API key provided.">>)
  ELSE IF ~raise_for_status(r).ok THEN raise_for_status(r)
  ELSE IF ~json(r).ok THEN json(r)
  ELSE LET data == json(r).val IN
    IF ~Truthy(data)
    THEN Raise("ValueError",
               <<"Location '">> \o location_query(city, state_code, country_code)
                 \o <<"' not found.">>)
    ELSE LET first == GetFirst(data) IN
      IF ~first.ok THEN first
      ELSE LET lat == GetKey(first.val, "lat") IN
        IF ~lat.ok THEN lat
        ELSE LET lon == GetKey(first.val, "lon") IN
          IF ~lon.ok THEN lon
          ELSE Return(<<lat.val, lon.val>>)

\* get_coordinates' except clauses, in source order.
geo_clauses == << {"HTTPError"}, {"RequestException"}, {"KeyError", "IndexError"} >>

\* get_coordinates: the try block, then the except clause that catches.
get_coordinates(city, state_code, country_code, key, r) ==
  LET t == geo_try(city, state_code, country_code, r)
      h == Handler(geo_clauses, t.exc.cls)
  IN  IF t.ok THEN t
      ELSE CASE h = 1 ->
                  Raise("ValueError",
                        <<"Geocoding API error or unexpected status code: ">>
                          \o t.exc.msg \o <<" - ">> \o r.text)
             [] h = 2 ->
                  Raise("ConnectionError",
                        <<"Network error occurred during geocoding: ">> \o t.exc.msg)
             [] h = 3 ->
                  Raise("ValueError",
                        <<"Error parsing geocoding response: ">> \o t.exc.msg)
             [] OTHER -> t

---------------------------------------------------------------------------
(* Weather fetcher *)

weather_url == <<"https://api.openweathermap.org/data/2.5/weather">>

weather_params(latitude, longitude, key) ==
  [lat |-> latitude, lon |-> longitude, appid |-> key, units |-> <<"metric">>]

\* The body of get_weather_data's try block.
weather_try(r) ==
  IF r.kind = "failure" THEN Raise(r.cls, r.cause)
  ELSE IF ~raise_for_status(r).ok THEN raise_for_status(r)
  ELSE IF ~json(r).ok THEN json(r)
  ELSE Return(<<json(r).val>>)

\* The clauses with the built-in ConnectionError caught in place of requests'
\* RequestException.
weather_clauses_builtin == << {"ConnectionError"}, {"HTTPError"} >>

\* get_weather_data's except clauses, in source order.
weather_clauses == << {"RequestException"}, {"HTTPError"} >>

\* get_weather_data (undecorated): the try block, then the clause that catches.
get_weather_data(r) ==
  LET t == weather_try(r)
      h == Handler(weather_clauses, t.exc.cls)
  IN  IF t.ok THEN t
      ELSE CASE h = 1 ->
                  Raise("ConnectionError", <<"Network error occurred: ">> \o t.exc.msg)
             [] h = 2 ->
                  IF r.status = 401
                  THEN Raise("ValueError", <<"Invalid API key provided.">>)
                  ELSE IF r.status = 404
                  THEN Raise("ValueError",
                             <<"Weather data not found for the provided coordinates.">>)
                  ELSE Raise("RuntimeError",
                             <<"API error occurred: ">> \o t.exc.msg \o <<" - ">> \o r.text)
             [] OTHER -> t

\* The wrapper without its "return result": the caller gets None.
log_execution_time_no_return(name, outcome) ==
  [outcome |-> IF outcome.ok THEN Return(<<JNull>>) ELSE outcome,
   printed |-> IF outcome.ok
               THEN << <<"Execution time for ">> \o name \o <<": ">>
                         \o <<"<elapsed>">> \o <<" seconds">> >>
               ELSE << >>]

\* log_execution_time's wrapper: the wrapped call's outcome and what it prints.
\* The print follows the call, so an exception leaves before it.
log_execution_time(name, outcome) ==
  [outcome |-> outcome,
   printed |-> IF outcome.ok
               THEN << <<"Execution time for ">> \o name \o <<": ">>
                         \o <<"<elapsed>">> \o <<" seconds">> >>
               ELSE << >>]

---------------------------------------------------------------------------
(* Report renderer *)

Upper(c) ==
  CASE c = "s" -> "S" [] c = "k" -> "K" [] c = "y" -> "Y" [] OTHER -> c

Lower(c) ==
  CASE c = "S" -> "s" [] c = "K" -> "k" [] c = "Y" -> "y" [] OTHER -> c

\* str.capitalize: first character upper-cased, the rest lower-cased.
capitalize(v) ==
  IF v.t # "str" THEN Raise("AttributeError", <<"object has no attribute 'capitalize'">>)
  ELSE Return(JStr([i \in 1..Len(v.s) |-> IF i = 1 THEN Upper(v.s[i]) ELSE Lower(v.s[i])]))

\* data[a][b]
GetKey2(v, a, b) ==
  LET x == GetKey(v, a) IN IF x.ok THEN GetKey(x.val, b) ELSE x

\* data["weather"][0]["description"].capitalize()
description_of(data) ==
  LET w == GetKey(data, "weather") IN
  IF ~w.ok THEN w
  ELSE LET e == GetFirst(w.val) IN
    IF ~e.ok THEN e
    ELSE LET d == GetKey(e.val, "description") IN
      IF ~d.ok THEN d ELSE capitalize(d.val)

\* datetime.fromtimestamp(timestamp, timezone.utc).astimezone().strftime(...).
\* Timestamps are counted in hours; year 9999 ends at hour 70389527.
time_str(v) ==
  IF v.t # "num" THEN Raise("TypeError", <<"an integer is required">>)
  ELSE IF v.n > 70389527 THEN Raise("ValueError", <<"year is out of range">>)
  ELSE Return(JStr(<<"<local time of ">> \o NumText(v.n) \o <<">">>))

\* The assignments of display_weather_data's try block, in source order; the
\* first that raises ends the block.
extraction(data) ==
  << GetKey(data, "name"),
     GetKey2(data, "sys", "country"),
     description_of(data),
     GetKey2(data, "main", "temp"),
     GetKey2(data, "main", "feels_like"),
     GetKey2(data, "main", "humidity"),
     GetKey2(data, "main", "pressure"),
     GetKey2(data, "wind", "speed"),
     GetKey(data, "dt"),
     IF GetKey(data, "dt").ok THEN time_str(GetKey(data, "dt").val)
     ELSE GetKey(data, "dt") >>

\* "-" * 40
separator == [i \in 1..40 |-> "-"]

\* The lines of the report, printed once every assignment has succeeded.
report(x) ==
  << separator,
     <<"Weather in ">> \o Format(x[1].val) \o <<", ">> \o Format(x[2].val)
       \o <<" at ">> \o Format(x[10].val),
     separator,
     <<"Description: ">> \o Format(x[3].val),
     <<"Temperature: ">> \o Format(x[4].val) \o <<"°C">>,
     <<"Feels like: ">> \o Format(x[5].val) \o <<"°C">>,
     <<"Humidity: ">> \o Format(x[6].val) \o <<"%">>,
     <<"Pressure: ">> \o Format(x[7].val) \o <<" hPa">>,
     <<"Wind Speed: ">> \o Format(x[8].val) \o <<" m/s">>,
     separator >>

\* The clauses without the closing "except Exception".
display_clauses_key_only == << {"KeyError"} >>

\* display_weather_data's except clauses, in source order.
display_clauses == << {"KeyError"}, {"Exception"} >>

\* display_weather_data printing the opening separator before it extracts.
display_weather_data_eager(data) ==
  LET x == extraction(data)
      bad == {i \in 1..Len(x) : ~x[i].ok}
  IN  IF bad = {} THEN report(x)
      ELSE LET e == x[CHOOSE i \in bad : \A j \in bad : i <= j].exc
               h == Handler(display_clauses, e.cls)
           IN  CASE h = 1 ->
                      << separator,
                         <<"Error processing weather data: Missing key ">> \o e.msg >>
                 [] OTHER ->
                      << separator,
                         <<"An unexpected error occurred during data processing: ">>
                           \o e.msg >>

\* display_weather_data: the lines it prints. It returns None in every case.
display_weather_data(data) ==
  LET x == extraction(data)
      bad == {i \in 1..Len(x) : ~x[i].ok}
  IN  IF bad = {} THEN report(x)
      ELSE LET e == x[CHOOSE i \in bad : \A j \in bad : i <= j].exc
               h == Handler(display_clauses, e.cls)
           IN  CASE h = 1 ->
                      << <<"Error processing weather data: Missing key ">> \o e.msg >>
                 [] h = 2 ->
                      << <<"An unexpected error occurred during data processing: ">>
                           \o e.msg >>
                 [] OTHER -> << >>

\* How display_weather_data ends: it returns None, unless an exception of its try
\* block matches none of its except clauses and leaves the function.
display_outcome(data) ==
  LET x == extraction(data)
      bad == {i \in 1..Len(x) : ~x[i].ok}
  IN  IF bad = {} THEN Return(<< >>)
      ELSE LET e == x[CHOOSE i \in bad : \A j \in bad : i <= j].exc
           IN  IF Handler(display_clauses, e.cls) = 0 THEN Raise(e.cls, e.msg)
               ELSE Return(<< >>)

---------------------------------------------------------------------------
(* Inputs: the command line, the environment, and what the two services may answer *)

Absent == [t |-> "absent"]

\* The JSON object holding the keys of o that are not Absent.
ObjOf(o) == JObj([k \in {k \in DOMAIN o : o[k].t # "absent"} |-> o[k]])

ApiKeyArgs == {JNull, JStr(<<>>), JStr(<<"A">>)}
EnvValues == {JNull, JStr(<<>>), JStr(<<"E">>)}
Cities == {<< >>, <<"N">>, <<"N", ",">>}
StateCodes == {<<>>, <<"V">>}
CountryCodes == {<<"U">>}

\* requests.get raising: the transport failed.
Failures ==
  {Failure("requests.ConnectionError", <<"Name or service not known">>),
   Failure("Timeout", <<"Read timed out">>)}

\* Bodies that are not JSON, for any status.
TextBodies(statuses) ==
  {Response(s, text, FALSE, JNull) :
     s \in statuses, text \in {<<>>, <<"<html>sorry</html>">>}}

FirstMatches ==
  {ObjOf([lat |-> a, lon |-> b]) :
     a \in {Absent, JNum(51), JStr(<<"x">>)}, b \in {Absent, JNum(-1), JNull}}
    \cup {JNull}

LaterMatches == {ObjOf([lat |-> JNum(48), lon |-> JNum(2)]), JNull}

GeoBodies ==
  {JList(<<f>> \o t) :
     f \in FirstMatches,
     t \in UNION {[1..n -> LaterMatches] : n \in 0..(MaxResults - 1)}}
    \cup {JList(<<>>), JNull, ObjOf([cod |-> JNum(200)])}

GeoOutcomes ==
  Failures
    \cup TextBodies({200, 401, 404, 429, 500})
    \cup {Response(s, <<"<json>">>, TRUE, j) : s \in {200, 203}, j \in GeoBodies}
    \cup {Response(s, <<"{\"cod\":", ToString(s), "}">>, TRUE, ObjOf([cod |-> JNum(s)])) :
            s \in {401, 404, 429, 500}}

\* A weather payload is described by how each place of the documented schema is
\* filled: "ok", "absent", or one of the ways below of being something else.
PayloadShapes ==
  [name : {"ok", "absent"},
   sys : {"ok", "absent", "scalar"},
   country : {"ok", "absent"},
   weather : {"ok", "absent", "scalar", "empty", "scalar_item"},
   description : {"ok", "absent", "number"},
   main : {"ok", "absent", "scalar"},
   temp : {"ok", "absent"},
   feels_like : {"ok", "absent"},
   humidity : {"ok", "absent"},
   pressure : {"ok", "absent"},
   wind : {"ok", "absent", "scalar"},
   speed : {"ok", "absent"},
   dt : {"ok", "absent", "text", "huge"}]

Defects(shape) == Cardinality({k \in DOMAIN shape : shape[k] # "ok"})

\* A shape names each payload once: nothing is said about the inside of a
\* container that is not there.
Canonical(shape) ==
  /\ shape.sys # "ok" => shape.country = "ok"
  /\ shape.weather # "ok" => shape.description = "ok"
  /\ shape.main # "ok" =>
       /\ shape.temp = "ok" /\ shape.feels_like = "ok"
       /\ shape.humidity = "ok" /\ shape.pressure = "ok"
  /\ shape.wind # "ok" => shape.speed = "ok"

Leaf(how, v) == IF how = "absent" THEN Absent ELSE v

Container(how, obj) ==
  CASE how = "absent" -> Absent
    [] how = "scalar" -> JNum(7)
    [] OTHER -> obj

Payload(shape) ==
  ObjOf([
    name |-> Leaf(shape.name, JStr(<<"L">>)),
    sys |-> Container(shape.sys,
              ObjOf([country |-> Leaf(shape.country, JStr(<<"G", "B">>))])),
    weather |->
      CASE shape.weather = "absent" -> Absent
        [] shape.weather = "scalar" -> JNull
        [] shape.weather = "empty" -> JList(<<>>)
        [] shape.weather = "scalar_item" -> JList(<<JNull>>)
        [] OTHER ->
             JList(<<ObjOf([description |->
                       CASE shape.description = "absent" -> Absent
                         [] shape.description = "number" -> JNum(800)
                         [] OTHER -> JStr(<<"s", "K", "y">>)])>>),
    main |-> Container(shape.main,
               ObjOf([temp |-> Leaf(shape.temp, JNum(15)),
                      feels_like |-> Leaf(shape.feels_like, JNum(14)),
                      humidity |-> Leaf(shape.humidity, JNum(60)),
                      pressure |-> Leaf(shape.pressure, JNum(1012))])),
    wind |-> Container(shape.wind, ObjOf([speed |-> Leaf(shape.speed, JNum(4))])),
    dt |->
      CASE shape.dt = "absent" -> Absent
        [] shape.dt = "text" -> JStr(<<"n", "o", "w">>)
        [] shape.dt = "huge" -> JNum(70389528)
        [] OTHER -> JNum(466357)])

WeatherShapes ==
  {shape \in PayloadShapes : Canonical(shape) /\ Defects(shape) <= MaxDefects}

GoodShape == [k \in DOMAIN CHOOSE shape \in PayloadShapes : TRUE |-> "ok"]

WeatherOutcomes ==
  Failures
    \cup TextBodies({200, 401, 404, 429, 500})
    \cup {Response(200, <<"<json>">>, TRUE, Payload(shape)) : shape \in WeatherShapes}
    \cup {Response(s, <<"<json>">>, TRUE, j) :
            s \in {200, 203}, j \in {Payload(GoodShape), JNull, JList(<<>>)}}
    \cup {Response(s, <<"{\"cod\":", ToString(s), "}">>, TRUE, ObjOf([cod |-> JNum(s)])) :
            s \in {401, 404, 429, 500}}

---------------------------------------------------------------------------
(* Orchestrator *)

\* The clauses with ConnectionError left out of the first.
main_clauses_no_connection == << {"ValueError", "RuntimeError"}, {"Exception"} >>

\* main's except clauses, in source order.
main_clauses == << {"ValueError", "ConnectionError", "RuntimeError"}, {"Exception"} >>

\* What main's except clauses print for an exception raised in its try block.
main_except(e) ==
  LET h == Handler(main_clauses, e.cls)
  IN  CASE h = 1 -> << <<"Error: ">> \o e.msg >>
        [] h = 2 -> << <<"An unexpected error occurred: ">> \o e.msg >>
        [] OTHER -> << >>

\* print(line), for each of lines, by the function `by`.
Printed(by, lines) == [i \in 1..Len(lines) |-> [by |-> by, text |-> lines[i]]]

Init ==
  /\ args \in [city : Cities, state : StateCodes, country : CountryCodes,
               apikey : ApiKeyArgs]
  /\ environ \in EnvValues
  /\ pc = "start"
  /\ api_key = JNull
  /\ coords = << >>
  /\ weather_data = << >>
  /\ response = NoResponse
  /\ result = NoResult
  /\ calls = << >>
  /\ returned = << >>
  /\ requests = << >>
  /\ inflight = 0
  /\ stdout = << >>
  /\ escaped = FALSE

\* A failure of the geocoding call sending main back to call it again.
Fail_retry(e, lines) ==
  /\ pc' = IF pc = "geo_wait" THEN "geo_send" ELSE "failed"
  /\ returned' = Append(returned, "raised")
  /\ stdout' = stdout \o lines \o Printed("main", main_except(e))
  /\ escaped' = (Handler(main_clauses, e.cls) = 0)

\* A component raised e after main had printed `lines`: main's except clauses run
\* and main ends.
Fail(e, lines) ==
  /\ pc' = "failed"
  /\ returned' = Append(returned, "raised")
  /\ stdout' = stdout \o lines \o Printed("main", main_except(e))
  /\ escaped' = (Handler(main_clauses, e.cls) = 0)

\* api_key = get_api_key(args), then the first progress line.
ResolveCredential ==
  /\ pc = "start"
  /\ calls' = Append(calls, "get_api_key")
  /\ result' = get_api_key(args, environ)
  /\ IF result'.ok
     THEN /\ api_key' = result'.val
          /\ returned' = Append(returned, "ok")
          /\ stdout' = stdout \o Printed("main",
               << <<"Fetching coordinates for ">> \o args.city \o <<", ">> \o args.state
                    \o <<", ">> \o args.country \o <<"...">> >>)
          /\ pc' = "geo_send"
          /\ escaped' = escaped
     ELSE /\ Fail(result'.exc, << >>)
          /\ api_key' = api_key
  /\ UNCHANGED <<args, environ, coords, weather_data, response, requests, inflight>>

\* get_coordinates is entered and issues its requests.get.
GeoSend ==
  /\ pc = "geo_send"
  /\ calls' = Append(calls, "get_coordinates")
  /\ requests' = Append(requests,
       [url |-> geo_url,
        params |-> geo_params(args.city, args.state, args.country, api_key)])
  /\ inflight' = inflight + 1
  /\ response' = NoResponse
  /\ result' = NoResult
  /\ pc' = "geo_wait"
  /\ UNCHANGED <<args, environ, api_key, coords, weather_data, returned, stdout, escaped>>

\* The geocoding request completes and get_coordinates returns or raises.
GeoRespond ==
  /\ pc = "geo_wait"
  /\ \E r \in GeoOutcomes :
       /\ response' = r
       /\ result' = get_coordinates(args.city, args.state, args.country, api_key, r)
  /\ inflight' = inflight - 1
  /\ IF result'.ok
     THEN /\ coords' = result'.val
          /\ returned' = Append(returned, "ok")
          /\ stdout' = stdout \o Printed("main",
               << <<"Coordinates found: Lat=">> \o Format(coords'[1]) \o <<", Lon=">>
                    \o Format(coords'[2]),
                  <<"Fetching weather data for Lat=">> \o Format(coords'[1])
                    \o <<", Lon=">> \o Format(coords'[2]) \o <<"...">> >>)
          /\ pc' = "weather_send"
          /\ escaped' = escaped
     ELSE /\ Fail(result'.exc, << >>)
          /\ coords' = coords
  /\ UNCHANGED <<args, environ, api_key, weather_data, calls, requests>>

\* get_weather_data is entered and issues its requests.get.
WeatherSend ==
  /\ pc = "weather_send"
  /\ calls' = Append(calls, "get_weather_data")
  /\ requests' = Append(requests,
       [url |-> weather_url, params |-> weather_params(coords[1], coords[2], api_key)])
  /\ inflight' = inflight + 1
  /\ response' = NoResponse
  /\ result' = NoResult
  /\ pc' = "weather_wait"
  /\ UNCHANGED <<args, environ, api_key, coords, weather_data, returned, stdout, escaped>>

\* The weather request completes and the decorated get_weather_data returns or raises.
WeatherRespond ==
  /\ pc = "weather_wait"
  /\ \E r \in WeatherOutcomes :
       /\ response' = r
       /\ result' = log_execution_time(<<"get_weather_data">>, get_weather_data(r)).outcome
  /\ inflight' = inflight - 1
  /\ LET timing == Printed("log_execution_time",
                     log_execution_time(<<"get_weather_data">>, result').printed)
     IN  IF result'.ok
         THEN /\ weather_data' = result'.val
              /\ returned' = Append(returned, "ok")
              /\ stdout' = stdout \o timing
              /\ pc' = "render"
              /\ escaped' = escaped
         ELSE /\ Fail(result'.exc, timing)
              /\ weather_data' = weather_data
  /\ UNCHANGED <<args, environ, api_key, coords, calls, requests>>

\* display_weather_data(weather_data), after which main returns.
Render ==
  /\ pc = "render"
  /\ calls' = Append(calls, "display_weather_data")
  /\ result' = display_outcome(weather_data[1])
  /\ LET lines == Printed("display_weather_data", display_weather_data(weather_data[1]))
     IN  IF result'.ok
         THEN /\ returned' = Append(returned, "ok")
              /\ stdout' = stdout \o lines
              /\ pc' = "done"
              /\ escaped' = escaped
         ELSE Fail(result'.exc, lines)
  /\ UNCHANGED <<args, environ, api_key, coords, weather_data, response, requests,
                 inflight>>

Next ==
  \/ ResolveCredential
  \/ GeoSend
  \/ GeoRespond
  \/ WeatherSend
  \/ WeatherRespond
  \/ Render

Spec == Init /\ [][Next]_vars

---------------------------------------------------------------------------
(* The error kinds of the specification, read off an exception *)

IsMissingCredential(e) ==
  /\ e.cls = "ValueError"
  /\ e.msg = missing_key_message

IsInvalidCredential(e) ==
  e.cls = "ValueError" /\ e.msg = <<"Invalid API key provided.">>

IsNetworkError(e) ==
  /\ e.cls = "ConnectionError"
  /\ e.msg # << >>
  /\ e.msg[1] \in {"Network error occurred during geocoding: ", "Network error occurred: "}

IsLocationNotFound(e) ==
  /\ e.cls = "ValueError"
  /\ Len(e.msg) >= 2
  /\ e.msg[1] = "Location '"
  /\ e.msg[Len(e.msg)] = "' not found."

IsCoordinatesNotFound(e) ==
  /\ e.cls = "ValueError"
  /\ e.msg = <<"Weather data not found for the provided coordinates.">>

IsGeoUpstreamError(e) ==
  /\ e.cls = "ValueError"
  /\ e.msg # << >>
  /\ e.msg[1] = "Geocoding API error or unexpected status code: "

IsWeatherUpstreamError(e) ==
  /\ e.cls = "RuntimeError"
  /\ e.msg # << >>
  /\ e.msg[1] = "API error occurred: "

IsResponseParseError(e) ==
  /\ e.cls = "ValueError"
  /\ e.msg # << >>
  /\ e.msg[1] = "Error parsing geocoding response: "

IsNotFound(e) == IsLocationNotFound(e) \/ IsCoordinatesNotFound(e)
IsUpstreamError(e) == IsGeoUpstreamError(e) \/ IsWeatherUpstreamError(e)

\* part occurs in text as a contiguous run of tokens.
Contains(text, part) ==
  \E i \in 0..(Len(text) - Len(part)) : SubSeq(text, i + 1, i + Len(part)) = part

\* The call of get_coordinates (get_weather_data) has just ended on an HTTP outcome.
GeoEnded ==
  /\ calls # << >> /\ calls[Len(calls)] = "get_coordinates"
  /\ response.kind # "none"

WeatherEnded ==
  /\ calls # << >> /\ calls[Len(calls)] = "get_weather_data"
  /\ response.kind # "none"

Is2xx(status) == 200 <= status /\ status < 300

---------------------------------------------------------------------------
(* Claims *)

\* C1: whenever the request of get_coordinates or of get_weather_data completes
\* with status 401, the call fails with InvalidCredential (ValueError "Invalid
\* API key provided."), never with NetworkError, UpstreamError or a not-found
\* error.
C1_Status401IsInvalidCredential ==
  ((GeoEnded \/ WeatherEnded) /\ response.kind = "response" /\ response.status = 401)
    => /\ ~result.ok
       /\ IsInvalidCredential(result.exc)
       /\ ~IsNetworkError(result.exc)
       /\ ~IsUpstreamError(result.exc)
       /\ ~IsNotFound(result.exc)

\* C2: whenever the request of get_weather_data completes with status 404, the
\* call fails with CoordinatesNotFound (ValueError "Weather data not found for
\* the provided coordinates."), which is neither LocationNotFound nor
\* NetworkError.
C2_Weather404IsCoordinatesNotFound ==
  (WeatherEnded /\ response.kind = "response" /\ response.status = 404)
    => /\ ~result.ok
       /\ IsCoordinatesNotFound(result.exc)
       /\ ~IsLocationNotFound(result.exc)
       /\ ~IsNetworkError(result.exc)

\* C3: for either endpoint, a response whose status is not 2xx and is not
\* specially handled (401 for geocoding; 401 and 404 for weather) makes the call
\* fail with UpstreamError, the message carrying the status error and the body
\* text; it never yields a return value nor NetworkError.
C3_OtherStatusIsUpstreamError ==
  /\ (GeoEnded /\ response.kind = "response" /\ ~Is2xx(response.status)
        /\ response.status # 401)
       => /\ ~result.ok
          /\ IsGeoUpstreamError(result.exc)
          /\ Contains(result.exc.msg, NumText(response.status))
          /\ Contains(result.exc.msg, <<" - ">> \o response.text)
  /\ (WeatherEnded /\ response.kind = "response" /\ ~Is2xx(response.status)
        /\ response.status \notin {401, 404})
       => /\ ~result.ok
          /\ IsWeatherUpstreamError(result.exc)
          /\ Contains(result.exc.msg, NumText(response.status))
          /\ Contains(result.exc.msg, <<" - ">> \o response.text)

\* C4: if the transport fails (no response obtained) during get_coordinates or
\* get_weather_data, the call fails with NetworkError (ConnectionError whose
\* message includes the underlying cause), never with UpstreamError,
\* InvalidCredential, a not-found error or a parse error.
C4_TransportFailureIsNetworkError ==
  ((GeoEnded \/ WeatherEnded) /\ response.kind = "failure")
    => /\ ~result.ok
       /\ IsNetworkError(result.exc)
       /\ Contains(result.exc.msg, response.cause)
       /\ ~IsUpstreamError(result.exc)
       /\ ~IsInvalidCredential(result.exc)
       /\ ~IsNotFound(result.exc)
       /\ ~IsResponseParseError(result.exc)

\* C4 happens: the weather request timed out and the call raised NetworkError.
C4_Witness ==
  /\ WeatherEnded
  /\ response.kind = "failure" /\ response.cls = "Timeout"
  /\ IsNetworkError(result.exc)
  /\ pc = "failed"

\* C5: main invokes its components as a prefix of credential resolution ->
\* geocoding -> weather -> render, each at most once; a component is invoked only
\* after all earlier ones returned; the first failure ends the run in Failed with
\* nothing invoked after it; at most two network calls are made, never two at once.
Pipeline == <<"get_api_key", "get_coordinates", "get_weather_data", "display_weather_data">>

C5_StrictlySequential ==
  /\ Len(calls) <= Len(Pipeline)
  /\ calls = SubSeq(Pipeline, 1, Len(calls))
  /\ Len(returned) \in {Len(calls) - 1, Len(calls)} \cap 0..Len(Pipeline)
  /\ \A i \in 1..Len(returned) : i < Len(calls) => returned[i] = "ok"
  /\ \A i \in 1..Len(returned) :
       returned[i] = "raised" => (pc = "failed" /\ i = Len(calls))
  /\ pc = "failed" =>
       (Len(returned) = Len(calls) /\ returned[Len(returned)] = "raised")
  /\ Len(requests) =
       Cardinality({i \in 1..Len(calls) :
                      calls[i] \in {"get_coordinates", "get_weather_data"}})
  /\ Len(requests) <= 2
  /\ inflight \in {0, 1}
  /\ inflight = 1 <=> pc \in {"geo_wait", "weather_wait"}

\* C5 happens: the weather call failed after the geocoding call had succeeded, and
\* the renderer was never invoked.
C5_Witness ==
  /\ pc = "failed"
  /\ calls = SubSeq(Pipeline, 1, 3)
  /\ returned = <<"ok", "ok", "raised">>
  /\ Len(requests) = 2

\* An exception main's first except clause catches by class.
IsHandledClass(e) == e.cls \in {"ValueError", "ConnectionError", "RuntimeError"}

\* The lines main's except clauses printed.
FailureLines ==
  SelectSeq(stdout,
    LAMBDA l : /\ l.by = "main"
               /\ l.text # << >>
               /\ l.text[1] \in {"Error: ", "An unexpected error occurred: "})

\* C6 as claimed: whenever main ends in Failed, for every failure kind, the
\* unclassified one included, exactly one failure line "Error: <message>" is
\* printed and main returns without raising.
C6_EveryFailurePrintsErrorLine ==
  pc = "failed" =>
    /\ ~escaped
    /\ FailureLines = << [by |-> "main", text |-> <<"Error: ">> \o result.exc.msg] >>
    /\ stdout[Len(stdout)] = FailureLines[1]

\* C6 as amended: whenever main ends in Failed it prints exactly one failure line,
\* last, and returns without raising; the line is "Error: <message>" when the
\* failure is a ValueError, ConnectionError or RuntimeError (every classified
\* kind) and "An unexpected error occurred: <message>" for any other exception.
C6_OneFailureLineByClass ==
  pc = "failed" =>
    /\ ~escaped
    /\ Len(FailureLines) = 1
    /\ stdout[Len(stdout)] = FailureLines[1]
    /\ FailureLines[1].text =
         (IF IsHandledClass(result.exc) THEN <<"Error: ">>
          ELSE <<"An unexpected error occurred: ">>) \o result.exc.msg
    /\ (IsMissingCredential(result.exc) \/ IsNetworkError(result.exc)
          \/ IsInvalidCredential(result.exc) \/ IsNotFound(result.exc)
          \/ IsUpstreamError(result.exc) \/ IsResponseParseError(result.exc))
         => FailureLines[1].text[1] = "Error: "

\* C6 happens: an exception of no classified kind reached main and was reported.
C6_Witness ==
  /\ pc = "failed"
  /\ ~IsHandledClass(result.exc)
  /\ FailureLines # << >>
  /\ FailureLines[1].text[1] = "An unexpected error occurred: "

\* C7: if neither --apikey nor OPENWEATHERMAP_API_KEY holds a non-empty value, the
\* run fails with MissingCredential and no network call is attempted at any point.
NoCredential ==
  /\ args.apikey \in {JNull, JStr(<< >>)}
  /\ environ \in {JNull, JStr(<< >>)}

C7_MissingCredentialBeforeNetwork ==
  NoCredential =>
    /\ requests = << >>
    /\ inflight = 0
    /\ pc \in {"start", "failed"}
    /\ pc = "failed" =>
         /\ calls = <<"get_api_key">>
         /\ IsMissingCredential(result.exc)
         /\ FailureLines # << >>

\* C7 happens: the argument is absent, the variable is set but empty, and the run
\* has failed.
C7_Witness ==
  /\ args.apikey = JNull
  /\ environ = JStr(<< >>)
  /\ pc = "failed"
  /\ IsMissingCredential(result.exc)

\* The places display_weather_data reads, in the order it reads them: the key
\* looked up and the top-level key it is looked up under ("" for the payload).
Places ==
  << [key |-> "name", under |-> ""],
     [key |-> "sys", under |-> ""],
     [key |-> "country", under |-> "sys"],
     [key |-> "weather", under |-> ""],
     [key |-> "description", under |-> "weather"],
     [key |-> "main", under |-> ""],
     [key |-> "temp", under |-> "main"],
     [key |-> "feels_like", under |-> "main"],
     [key |-> "humidity", under |-> "main"],
     [key |-> "pressure", under |-> "main"],
     [key |-> "wind", under |-> ""],
     [key |-> "speed", under |-> "wind"],
     [key |-> "dt", under |-> ""] >>

\* Whether a key of a JSON value is there: "ok", "absent" (the value is a
\* mapping without the key) or "bad" (the value is no mapping).
KeyState(v, key) ==
  IF v.t # "obj" THEN "bad"
  ELSE IF key \in DOMAIN v.fields THEN "ok" ELSE "absent"

\* The state of a place of the payload; "skip" under a top-level key that is not
\* there. The description is looked up in the first item of the weather list and
\* must be a string.
PlaceState(data, p) ==
  IF p.under = "" THEN KeyState(data, p.key)
  ELSE IF KeyState(data, p.under) # "ok" THEN "skip"
  ELSE LET parent == data.fields[p.under] IN
    IF p.under # "weather" THEN KeyState(parent, p.key)
    ELSE IF parent.t # "list" THEN "bad"
    ELSE IF parent.items = << >> THEN "bad"
    ELSE IF KeyState(parent.items[1], p.key) # "ok"
         THEN KeyState(parent.items[1], p.key)
    ELSE IF parent.items[1].fields[p.key].t # "str" THEN "bad"
    ELSE "ok"

AbsentPlaces(data) ==
  {i \in 1..Len(Places) : PlaceState(data, Places[i]) = "absent"}

FirstAbsent(data) ==
  CHOOSE i \in AbsentPlaces(data) : \A j \in AbsentPlaces(data) : i <= j

\* What display_weather_data printed, once it has run.
Rendered ==
  LET own == SelectSeq(stdout, LAMBDA l : l.by = "display_weather_data")
  IN  [i \in 1..Len(own) |-> own[i].text]

MissingKeyLine(key) ==
  <<"Error processing weather data: Missing key ", "'", key, "'">>

IsReportLine(text) ==
  \/ text = [i \in 1..40 |-> "-"]
  \/ /\ text # << >>
     /\ text[1] \in {"Weather in ", "Description: ", "Temperature: ", "Feels like: ",
                     "Humidity: ", "Pressure: ", "Wind Speed: "}

FirstMatch == response.json.items[1]

MalformedCoordinate(e, key) ==
  KeyState(e, key) = "absent" \/ (KeyState(e, key) = "ok" /\ e.fields[key].t # "num")

C9_MalformedCoordinateIsParseError ==
  (/\ GeoEnded /\ response.kind = "response" /\ Is2xx(response.status)
   /\ response.json_ok /\ response.json.t = "list" /\ response.json.items # << >>
   /\ FirstMatch.t = "obj"
   /\ (MalformedCoordinate(FirstMatch, "lat") \/ MalformedCoordinate(FirstMatch, "lon")))
    => /\ ~result.ok
       /\ IsResponseParseError(result.exc)
       /\ coords = << >>

\* C10: for all city, region and country, when the geocoding response is 2xx with
\* an empty array, get_coordinates fails with LocationNotFound whose message
\* contains the query "city,region,country", the three inputs joined by commas
\* unchanged, which is what was sent as q; no coordinates are produced.
Query == args.city \o <<",">> \o args.state \o <<",">> \o args.country

C10_EmptyMatchListIsLocationNotFound ==
  (/\ GeoEnded /\ response.kind = "response" /\ Is2xx(response.status)
   /\ response.json_ok /\ response.json = JList(<< >>))
    => /\ ~result.ok
       /\ IsLocationNotFound(result.exc)
       /\ result.exc.msg = <<"Location '">> \o Query \o <<"' not found.">>
       /\ Contains(result.exc.msg, Query)
       /\ requests[Len(requests)].params.q = Query
       /\ coords = << >>

\* C10 happens: a city holding a comma and an empty region were looked up, and
\* nothing matched.
C10_Witness ==
  /\ GeoEnded
  /\ args.city = <<"N", ",">> /\ args.state = << >>
  /\ response.kind = "response" /\ response.status = 200
  /\ response.json_ok /\ response.json = JList(<< >>)
  /\ IsLocationNotFound(result.exc)
  /\ pc = "failed"

\* C11: for every 2xx geocoding response with a non-empty array whose first
\* element has lat and lon, get_coordinates returns exactly (first.lat,
\* first.lon), whatever the later elements are, and main passes exactly that pair,
\* with the credential it gave get_coordinates, to get_weather_data.
FirstMatchHasCoordinates ==
  /\ GeoEnded /\ response.kind = "response" /\ Is2xx(response.status)
  /\ response.json_ok /\ response.json.t = "list" /\ response.json.items # << >>
  /\ FirstMatch.t = "obj"
  /\ {"lat", "lon"} \subseteq DOMAIN FirstMatch.fields

C11_FirstMatchCoordinatesPassedOn ==
  /\ FirstMatchHasCoordinates =>
       /\ result.ok
       /\ result.val = <<FirstMatch.fields["lat"], FirstMatch.fields["lon"]>>
       /\ coords = result.val
       /\ pc = "weather_send"
  /\ Len(requests) >= 2 =>
       /\ requests[2].url = weather_url
       /\ requests[2].params.lat = coords[1]
       /\ requests[2].params.lon = coords[2]
       /\ requests[2].params.appid = api_key
       /\ requests[1].params.appid = api_key

\* C11 happens: the array held a second match with other coordinates, and the
\* first match's pair was returned.
C11_Witness ==
  /\ FirstMatchHasCoordinates
  /\ Len(response.json.items) = 2
  /\ response.json.items[2] = ObjOf([lat |-> JNum(48), lon |-> JNum(2)])
  /\ coords = <<JNum(51), JNum(-1)>>

\* C12: for every combination of explicit value and environment value, each
\* absent, empty or non-empty, get_api_key returns the explicit value if it is
\* non-empty, otherwise the environment value if it is non-empty, and otherwise
\* fails with MissingCredential, whose message names both sources; the explicit
\* value wins whenever both are present.
NonEmpty(v) == v.t = "str" /\ Len(v.s) > 0

C12_CredentialPrecedence ==
  pc # "start" =>
    /\ NonEmpty(args.apikey) => api_key = args.apikey
    /\ (~NonEmpty(args.apikey) /\ NonEmpty(environ)) => api_key = environ
    /\ (NonEmpty(args.apikey) \/ NonEmpty(environ)) =>
         /\ returned[1] = "ok"
         /\ Len(calls) = 1 => result = Return(api_key)
    /\ (~NonEmpty(args.apikey) /\ ~NonEmpty(environ)) =>
         /\ returned = <<"raised">>
         /\ ~result.ok
         /\ IsMissingCredential(result.exc)
         /\ Contains(result.exc.msg, <<"--apikey">>)
         /\ Contains(result.exc.msg, <<"OPENWEATHERMAP_API_KEY">>)

\* C12 happens: both sources hold a value and the explicit one was returned.
C12_Witness ==
  /\ calls = <<"get_api_key">>
  /\ NonEmpty(args.apikey) /\ NonEmpty(environ) /\ args.apikey # environ
  /\ result = Return(args.apikey)
  /\ api_key = args.apikey

\* The execution-time lines printed so far.
TimingLines == SelectSeq(stdout, LAMBDA l : l.by = "log_execution_time")

\* C13 as claimed: every invocation of the decorated get_weather_data emits one
\* execution-duration measurement, whether the call returns a payload or fails,
\* and the wrapper changes neither the payload returned nor the error raised.
C13_EveryFetchIsTimed ==
  WeatherEnded =>
    /\ Len(TimingLines) = 1
    /\ result = get_weather_data(response)

\* C13 as amended: an invocation of the decorated get_weather_data that returns
\* emits exactly one execution-duration measurement, once the call has ended; an
\* invocation that fails emits none; the wrapper changes neither the payload
\* returned nor the error raised.
C13_ReturningFetchIsTimed ==
  /\ (Len(calls) < 3 \/ pc = "weather_wait") => TimingLines = << >>
  /\ (Len(calls) >= 3 /\ pc # "weather_wait") =>
       /\ returned[3] = "ok" =>
            /\ Len(TimingLines) = 1
            /\ TimingLines[1].text =
                 <<"Execution time for ", "get_weather_data", ": ", "<elapsed>",
                   " seconds">>
       /\ returned[3] = "raised" => TimingLines = << >>
  /\ WeatherEnded =>
       /\ result = get_weather_data(response)
       /\ result.ok => weather_data = result.val

\* C13 happens: the weather call returned a payload and one measurement was
\* printed.
C13_Witness ==
  /\ WeatherEnded
  /\ result.ok
  /\ weather_data = <<Payload(GoodShape)>>
  /\ Len(TimingLines) = 1
  /\ stdout[Len(stdout)] = TimingLines[1]

\* The payload handed to display_weather_data makes one of its assignments raise.
ExtractionFails(data) ==
  \E i \in 1..Len(extraction(data)) : ~extraction(data)[i].ok

\* The first token of the two diagnostics display_weather_data prints.
DiagnosticPrefixes ==
  {"Error processing weather data: Missing key ",
   "An unexpected error occurred during data processing: "}

\* C14: a failure inside display_weather_data never reaches main: the renderer
\* prints its own single diagnostic line, main does not end in Failed and prints
\* no failure line; get_coordinates and get_weather_data print nothing themselves
\* and every failure in them reaches main as a raised error, which main reports.
C14_RendererFailuresStayLocal ==
  /\ Len(calls) = 4 =>
       /\ pc = "done"
       /\ result.ok
       /\ returned = <<"ok", "ok", "ok", "ok">>
       /\ FailureLines = << >>
       /\ ~escaped
       /\ ExtractionFails(weather_data[1]) =>
            /\ Len(Rendered) = 1
            /\ Rendered[1][1] \in DiagnosticPrefixes
            /\ stdout[Len(stdout)].by = "display_weather_data"
       /\ ~ExtractionFails(weather_data[1]) =>
            \A i \in 1..Len(Rendered) : IsReportLine(Rendered[i])
  /\ Len(calls) < 4 => Rendered = << >>
  /\ \A i \in 1..Len(stdout) :
       /\ stdout[i].by \in {"main", "log_execution_time", "display_weather_data"}
       /\ stdout[i].text[1] \in {"Error: ", "An unexpected error occurred: "}
            => stdout[i].by = "main"
  /\ ((GeoEnded \/ WeatherEnded) /\ ~result.ok) =>
       /\ pc = "failed"
       /\ returned[Len(returned)] = "raised"
       /\ Len(FailureLines) = 1
       /\ stdout[Len(stdout)] = FailureLines[1]
       /\ SubSeq(FailureLines[1].text, 2, Len(FailureLines[1].text)) = result.exc.msg

\* C14 happens: the payload's condition list was empty, the renderer printed its
\* generic diagnostic and main ended normally.
C14_Witness ==
  /\ pc = "done"
  /\ weather_data = <<Payload([GoodShape EXCEPT !.weather = "empty"])>>
  /\ Len(Rendered) = 1
  /\ Rendered[1][1] = "An unexpected error occurred during data processing: "
  /\ FailureLines = << >>

====
